---- MODULE Spec2Model ----
(***************************************************************************)
(* A model of src/logger.rs: the OsLogger tracing layer, which mirrors     *)
(* tracing spans as native os_activity objects and renders events into     *)
(* one text line for os_log.                                               *)
(*                                                                         *)
(* Strings are TLA+ strings; a native handle is the index of its record in *)
(* the creation log of the native facility.                                *)
(***************************************************************************)
EXTENDS Integers, Sequences, FiniteSets, TLC

\* ------------------------------------------------------------------ bounds

\* Span ids the registry can hand out.
MaxSpans == 3
\* Fields recorded on one span.
MaxAttrs == 2
\* Fields recorded on one event.
MaxEventAttrs == 3
\* Threads calling into the layer concurrently.
MaxThreads == 2

SpanIds == 1..MaxSpans
Threads == 1..MaxThreads

\* ------------------------------------------------------------ input domains

\* The callsites (metadata target and name) a span can come from.
Callsites ==
  { [target |-> "t", name |-> "a"],
    [target |-> "t", name |-> "b"],
    [target |-> "t", name |-> "c"] }

\* The name of the callsite a chain of nested spans uses at each depth.
ChainNames == <<"a", "b", "c">>

ChainCallsite(d) ==
  [target |-> "t", name |-> ChainNames[((d - 1) % Len(ChainNames)) + 1]]

\* Fields a span can be created with, as <<name, rendered value>>.
SpanFields == { <<"user", "alice">>, <<"id", "7">>, <<"log.t", "x">> }

\* Fields an event can carry.
EventFields ==
  { <<"message", "done">>, <<"code", "7">>, <<"n", "1">>, <<"log.t", "x">> }

\* Sequences over F of length at most n whose field names are all distinct:
\* the value sets tracing hands to a visitor.
RECURSIVE FieldLists(_, _)
FieldLists(F, n) ==
  IF n = 0 THEN { <<>> }
  ELSE LET shorter == FieldLists(F, n - 1)
           grow == { p \in shorter \X F :
                       /\ Len(p[1]) = n - 1
                       /\ \A i \in 1..Len(p[1]) : p[1][i][1] # p[2][1] }
       IN shorter \cup { Append(p[1], p[2]) : p \in grow }

SpanAttrLists == FieldLists(SpanFields, MaxAttrs)
EventAttrLists == FieldLists(EventFields, MaxEventAttrs)

Levels == { "TRACE", "DEBUG", "INFO", "WARN", "ERROR" }

\* ------------------------------------------------------ strings and the map

\* str::starts_with
StartsWith(s, p) == Len(s) >= Len(p) /\ SubSeq(s, 1, Len(p)) = p

\* Whether s has t as a contiguous part.
Contains(s, t) ==
  \E i \in 1..(Len(s) - Len(t) + 1) : SubSeq(s, i, i + Len(t) - 1) = t

\* [..].join(sep) over a sequence of strings.
RECURSIVE Join(_, _)
Join(parts, sep) ==
  IF parts = <<>> THEN ""
  ELSE IF Len(parts) = 1 THEN parts[1]
  ELSE parts[1] \o sep \o Join(Tail(parts), sep)

\* The character that stands for an embedded NUL.
Nul == "%0"

\* CString::new(s): fails on an embedded NUL.
CStringNewFails(s) == Contains(s, Nul)

\* AttributeMap: the ordered map of visitor.rs, a sequence of <<key, value>>
\* with unique keys in insertion order.
EmptyMap == <<>>

MapHas(m, k) == \E i \in 1..Len(m) : m[i][1] = k

MapGet(m, k) == m[CHOOSE i \in 1..Len(m) : m[i][1] = k][2]

\* insert: a new key goes last, a known key keeps its place.
MapInsert(m, k, v) ==
  IF MapHas(m, k)
  THEN [i \in 1..Len(m) |-> IF m[i][1] = k THEN <<k, v>> ELSE m[i]]
  ELSE Append(m, <<k, v>>)

\* remove: the other entries keep their relative order.
MapRemove(m, k) == SelectSeq(m, LAMBDA e : e[1] # k)

\* FieldVisitor over a value set: every field is inserted as it is recorded.
RECURSIVE Record(_, _)
Record(fields, m) ==
  IF fields = <<>> THEN m
  ELSE Record(Tail(fields), MapInsert(m, Head(fields)[1], Head(fields)[2]))

\* ------------------------------------------------------------------- state

VARIABLES
  spans,       \* the registry: span id -> its callsite and parent, or NoSpan
  ext,         \* the Activity in each span's extension slot, or NoActivity
  NAMES,       \* the interner: signature -> the CString allocated for it
  cstrings,    \* every CString the interner allocated, in allocation order
  activities,  \* every native activity created, in creation order
  state,       \* OsLogger.state, the one scope-state buffer of the layer
  current,     \* the native facility's current activity of each thread
  last,        \* the callback that ran last, how it ended, its native call
  pc,          \* where each thread stands in the callback it is running
  call,        \* the locals of the callback each thread is running
  extLock,     \* the thread holding each span's extensions for writing, or 0
  namesLock,   \* the thread holding the NAMES mutex, or 0
  entered      \* the registry's stack of entered spans of each thread

vars ==
  <<spans, ext, NAMES, cstrings, activities, state, current, last,
    pc, call, extLock, namesLock, entered>>

\* What only callbacks running step by step on several threads change.
tvars == <<pc, call, extLock, namesLock, entered>>

\* closed: the registry has delivered on_close for the span.
NoSpan ==
  [callsite |-> [target |-> "", name |-> ""], parent |-> 0, closed |-> FALSE]
NoActivity == [activity |-> 0, attributes |-> EmptyMap]

\* &mut _os_activity_current: the ambient top-level activity.
OsActivityCurrent == 0

\* mem::zeroed() scope state: the buffer the native scope calls keep the
\* activity entered and the one that was current before it in.
ZeroedState == [prev |-> 0, scope |-> 0]

\* No native call.
NoNative == [fn |-> "none", handle |-> 0, level |-> "-", text |-> ""]

Native(fn, handle, level, text) ==
  [fn |-> fn, handle |-> handle, level |-> level, text |-> text]

NoCall == [op |-> "none", id |-> 0, attrs |-> <<>>, level |-> "-",
           result |-> "ok", native |-> NoNative]

\* A callback that returned, with the native call it made.
Returned(op, id, attrs, level, native) ==
  [op |-> op, id |-> id, attrs |-> attrs, level |-> level,
   result |-> "ok", native |-> native]

\* A callback that panicked before any native call.
Panicked(op, id, attrs, level) ==
  [op |-> op, id |-> id, attrs |-> attrs, level |-> level,
   result |-> "panic", native |-> NoNative]

\* The locals of a thread that runs no callback; result is how its last
\* callback ended.
Idle == [id |-> 0, attrs |-> <<>>, found |-> FALSE, parent_activity |-> 0,
         activity |-> 0, level |-> "-", scope |-> <<>>, message |-> "",
         result |-> "ok"]

Init ==
  /\ spans = [i \in SpanIds |-> NoSpan]
  /\ ext = [i \in SpanIds |-> NoActivity]
  /\ NAMES = <<>>
  /\ cstrings = <<>>
  /\ activities = <<>>
  /\ state = ZeroedState
  /\ current = [t \in Threads |-> OsActivityCurrent]
  /\ last = NoCall
  /\ pc = [t \in Threads |-> "idle"]
  /\ call = [t \in Threads |-> Idle]
  /\ extLock = [i \in SpanIds |-> 0]
  /\ namesLock = 0
  /\ entered = [t \in Threads |-> <<>>]

\* ------------------------------------------------------- the registry side

\* ctx.span(id)
Registered(id) == id \in SpanIds /\ spans[id] # NoSpan

\* span.parent(): the parent span, if the registry still has it.
ParentOf(id) ==
  IF spans[id].parent # 0 /\ Registered(spans[id].parent)
  THEN spans[id].parent ELSE 0

\* The spans from leaf up to its root.
RECURSIVE ScopeFromLeaf(_)
ScopeFromLeaf(leaf) ==
  IF leaf = 0 \/ ~Registered(leaf) THEN <<>>
  ELSE <<leaf>> \o ScopeFromLeaf(ParentOf(leaf))

Reverse(q) == [i \in 1..Len(q) |-> q[Len(q) + 1 - i]]

\* scope.from_root()
FromRoot(leaf) == Reverse(ScopeFromLeaf(leaf))

\* The tracing registry registers a new span before it tells the layers.
Register(id, cs, parent) ==
  /\ ~Registered(id)
  /\ parent = 0 \/ (parent # id /\ Registered(parent))
  /\ spans' = [spans EXCEPT ![id] =
                [callsite |-> cs, parent |-> parent, closed |-> FALSE]]
  /\ last' = Returned("register", id, <<>>, "-", NoNative)
  /\ UNCHANGED tvars
  /\ UNCHANGED <<ext, NAMES, cstrings, activities, state, current>>

\* -------------------------------------------------------------- on_new_span

HasActivity(id) == id \in SpanIds /\ ext[id] # NoActivity

\* As NeedsActivity, without looking at the slot.
NeedsActivityAlways(id) == TRUE

\* extensions.get_mut::<Activity>().is_none()
NeedsActivity(id) == ~HasActivity(id)

\* The parent span is there and holds no Activity: the expect panics.
ParentMissing(id) == ParentOf(id) # 0 /\ ~HasActivity(ParentOf(id))

\* As ParentActivity, with the ambient activity for every span.
ParentActivityAmbient(id) == OsActivityCurrent

\* The handle the new activity is made a child of.
ParentActivity(id) ==
  IF ParentOf(id) # 0 THEN ext[ParentOf(id)].activity ELSE OsActivityCurrent

\* "{target}::{name}({k}: {v}, ...)"
Signature(cs, attributes) ==
  Join(<<cs.target, cs.name>>, "::") \o "("
    \o Join([i \in 1..Len(attributes) |->
               attributes[i][1] \o ": " \o attributes[i][2]], ", ")
    \o ")"

\* names.entry(full_name).or_insert_with(CString::new(..).expect(..))
Interned(names, full_name) == full_name \in DOMAIN names

InternFails(names, full_name) ==
  ~Interned(names, full_name) /\ CStringNewFails(full_name)

InternNames(names, strs, full_name) ==
  IF Interned(names, full_name) THEN names
  ELSE names @@ (full_name :> Len(strs) + 1)

InternCStrings(names, strs, full_name) ==
  IF Interned(names, full_name) THEN strs ELSE Append(strs, full_name)

\* _os_activity_create(dso, name, parent, flags); made_for and made_with are
\* the span and the fields the call was made for, kept to state the claims.
NewActivity(name, parent, id, attrs) ==
  [name |-> name, parent |-> parent, released |-> 0,
   made_for |-> id, made_with |-> attrs]

\* As StoredAttributes, with a fresh map in place of the collected one.
StoredAttributesFresh(attributes) == EmptyMap

\* The attribute map the new Activity stores.
StoredAttributes(attributes) == attributes

on_new_span(attrs, id) ==
  /\ UNCHANGED tvars
  /\ IF ~Registered(id) \/ (NeedsActivity(id) /\ ParentMissing(id))
     THEN /\ last' = Panicked("on_new_span", id, attrs, "-")
          /\ UNCHANGED <<spans, ext, NAMES, cstrings, activities, state,
                         current>>
     ELSE IF ~NeedsActivity(id)
     THEN /\ last' = Returned("on_new_span", id, attrs, "-", NoNative)
          /\ UNCHANGED <<spans, ext, NAMES, cstrings, activities, state,
                         current>>
     ELSE LET attributes == Record(attrs, EmptyMap)
              full_name == Signature(spans[id].callsite, attributes)
          IN IF InternFails(NAMES, full_name)
             THEN /\ last' = Panicked("on_new_span", id, attrs, "-")
                  /\ UNCHANGED <<spans, ext, NAMES, cstrings, activities,
                                 state, current>>
             ELSE /\ NAMES' = InternNames(NAMES, cstrings, full_name)
                  /\ cstrings' = InternCStrings(NAMES, cstrings, full_name)
                  /\ activities' =
                       Append(activities,
                              NewActivity(NAMES'[full_name],
                                          ParentActivity(id), id, attrs))
                  /\ ext' = [ext EXCEPT ![id] =
                               [activity |-> Len(activities) + 1,
                                attributes |-> StoredAttributes(attributes)]]
                  /\ last' = Returned("on_new_span", id, attrs, "-",
                                      Native("_os_activity_create",
                                             ParentActivity(id), "-",
                                             full_name))
                  /\ UNCHANGED <<spans, state, current>>

\* ----------------------------------------------------------------- on_event

\* As LevelMap, with WARN sent to the default level.
LevelMapWarnDefault(level) ==
  CASE level = "TRACE" -> "OS_LOG_TYPE_DEBUG"
    [] level = "DEBUG" -> "OS_LOG_TYPE_DEBUG"
    [] level = "INFO" -> "OS_LOG_TYPE_INFO"
    [] level = "WARN" -> "OS_LOG_TYPE_DEFAULT"
    [] level = "ERROR" -> "OS_LOG_TYPE_ERROR"

LevelMap(level) ==
  CASE level = "TRACE" -> "OS_LOG_TYPE_DEBUG"
    [] level = "DEBUG" -> "OS_LOG_TYPE_DEBUG"
    [] level = "INFO" -> "OS_LOG_TYPE_INFO"
    [] level = "WARN" -> "OS_LOG_TYPE_ERROR"
    [] level = "ERROR" -> "OS_LOG_TYPE_ERROR"

\* As IsMeta, comparing the whole key.
IsMetaWholeKey(k) == k = "log."

\* k.as_str().starts_with("log.")
IsMeta(k) == StartsWith(k, "log.")

\* The loop over a span's attributes, n entries already written.
RECURSIVE SpanAttrLoop(_, _)
SpanAttrLoop(attributes, n) ==
  IF attributes = <<>> THEN ""
  ELSE LET k == Head(attributes)[1]
           v == Head(attributes)[2]
       IN IF IsMeta(k) THEN SpanAttrLoop(Tail(attributes), n)
          ELSE (IF n > 0 THEN "," ELSE "") \o k \o "=" \o v
                 \o SpanAttrLoop(Tail(attributes), n + 1)

\* !attributes.is_empty()
WritesBraces(attributes) == attributes # EmptyMap

SpanAttrBlock(attributes) ==
  IF WritesBraces(attributes)
  THEN "{" \o SpanAttrLoop(attributes, 0) \o "}"
  ELSE ""

\* What one span of the scope appends to the message.
SpanSegment(name, attributes) ==
  name \o SpanAttrBlock(attributes) \o ": "

\* for span in scope.from_root() { .. } over the spans' names and maps.
RECURSIVE ScopeLoop(_)
ScopeLoop(chain) ==
  IF chain = <<>> THEN ""
  ELSE SpanSegment(Head(chain).name, Head(chain).attributes)
         \o ScopeLoop(Tail(chain))

\* As ScopeOrder, without from_root().
ScopeOrderLeafFirst(leaf) == ScopeFromLeaf(leaf)

\* The order in which on_event walks the scope of an event.
ScopeOrder(leaf) == FromRoot(leaf)

\* span.name() and the attributes of its Activity, for each span walked.
ScopeSpans(leaf) ==
  [i \in 1..Len(ScopeOrder(leaf)) |->
     [name |-> spans[ScopeOrder(leaf)[i]].callsite.name,
      attributes |-> ext[ScopeOrder(leaf)[i]].attributes]]

\* As MessagePart, with one space after the value.
MessagePartOneSpace(attributes) ==
  IF MapHas(attributes, "message")
  THEN MapGet(attributes, "message") \o " "
  ELSE ""

\* attributes.remove("message"), then value and two spaces.
MessagePart(attributes) ==
  IF MapHas(attributes, "message")
  THEN MapGet(attributes, "message") \o "  "
  ELSE ""

\* The loop over the event's remaining attributes.
RECURSIVE EventAttrLoop(_, _)
EventAttrLoop(attributes, n) ==
  IF attributes = <<>> THEN ""
  ELSE LET k == Head(attributes)[1]
           v == Head(attributes)[2]
       IN IF IsMeta(k) THEN EventAttrLoop(Tail(attributes), n)
          ELSE (IF n > 0 THEN " " ELSE "") \o k \o "=" \o v
                 \o EventAttrLoop(Tail(attributes), n + 1)

EventPart(attributes) ==
  MessagePart(attributes)
    \o EventAttrLoop(MapRemove(attributes, "message"), 0)

\* The text on_event builds for an event with these fields under leaf.
RenderMessage(fields, leaf) ==
  ScopeLoop(ScopeSpans(leaf)) \o EventPart(Record(fields, EmptyMap))

\* Some span of the scope holds no Activity: the expect panics.
ScopeBroken(leaf) ==
  \E i \in 1..Len(ScopeFromLeaf(leaf)) : ~HasActivity(ScopeFromLeaf(leaf)[i])

on_event(level, fields, leaf) ==
  /\ leaf = 0 \/ Registered(leaf)
  /\ UNCHANGED tvars
  /\ IF ScopeBroken(leaf) \/ CStringNewFails(RenderMessage(fields, leaf))
     THEN last' = Panicked("on_event", leaf, fields, level)
     ELSE last' = Returned("on_event", leaf, fields, level,
                           Native("wrapped_os_log_with_type", 0,
                                  LevelMap(level),
                                  RenderMessage(fields, leaf)))
  /\ UNCHANGED <<spans, ext, NAMES, cstrings, activities, state, current>>

\* ------------------------------------------------ on_enter, on_exit, on_close

\* os_activity_scope_enter(activity, &state) on thread t.
on_enter(t, id) ==
  /\ UNCHANGED tvars
  /\ IF ~Registered(id) \/ ~HasActivity(id)
     THEN /\ last' = Panicked("on_enter", id, <<>>, "-")
          /\ UNCHANGED <<state, current>>
     ELSE /\ state' = [prev |-> current[t], scope |-> ext[id].activity]
          /\ current' = [current EXCEPT ![t] = ext[id].activity]
          /\ last' = Returned("on_enter", id, <<>>, "-",
                              Native("os_activity_scope_enter",
                                     ext[id].activity, "-", ""))
  /\ UNCHANGED <<spans, ext, NAMES, cstrings, activities>>

\* os_activity_scope_leave(&state) on thread t.
on_exit(t, id) ==
  /\ UNCHANGED tvars
  /\ current' = [current EXCEPT ![t] = state.prev]
  /\ state' = state
  /\ last' = Returned("on_exit", id, <<>>, "-",
                      Native("os_activity_scope_leave", 0, "-", ""))
  /\ UNCHANGED <<spans, ext, NAMES, cstrings, activities>>

\* As Released, without the release call.
ReleasedNever(acts, h) == acts

\* As Released, with the release call issued twice.
ReleasedTwice(acts, h) == [acts EXCEPT ![h].released = @ + 2]

\* impl Drop for Activity: os_release(self.activity)
Released(acts, h) == [acts EXCEPT ![h].released = @ + 1]

\* As CloseFinds, taking an empty slot for a found one.
CloseFindsAny(id) == Registered(id)

\* extensions.remove::<Activity>().expect(..): whether there is one to take.
CloseFinds(id) == Registered(id) /\ HasActivity(id)

on_close(id) ==
  /\ UNCHANGED tvars
  /\ IF ~CloseFinds(id)
     THEN /\ last' = Panicked("on_close", id, <<>>, "-")
          /\ UNCHANGED <<spans, ext, activities>>
     ELSE /\ ext' = [ext EXCEPT ![id] = NoActivity]
          /\ activities' = Released(activities, ext[id].activity)
          /\ spans' = [spans EXCEPT ![id].closed = TRUE]
          /\ last' = Returned("on_close", id, <<>>, "-",
                              Native("os_release", ext[id].activity, "-", ""))
  /\ UNCHANGED <<NAMES, cstrings, state, current>>

\* ------------------------------------------------------------ specifications

\* The thread the callbacks of a sequential run arrive on.
MainThread == CHOOSE t \in Threads : \A u \in Threads : t <= u

\* The spans, fields and callsites of the lifecycle runs.
LifeSpanIds == 1..(MaxSpans - 1)
LifeSpanAttrLists == { <<>>, << <<"user", "alice">>, <<"log.t", "x">> >> }
LifeEventAttrLists == { << <<"message", "done">> >> }
LifeCallsites == { cs \in Callsites : cs.name = "a" }

\* The registry announces a span once: never again after closing it.
Announce(attrs, id) ==
  /\ ~spans[id].closed
  /\ on_new_span(attrs, id)

\* Callbacks on any span id, one at a time, in any other order.
Next ==
  \/ \E id \in LifeSpanIds, cs \in LifeCallsites, parent \in {0} \cup LifeSpanIds :
       Register(id, cs, parent)
  \/ \E attrs \in LifeSpanAttrLists, id \in LifeSpanIds : Announce(attrs, id)
  \/ \E id \in LifeSpanIds : on_enter(MainThread, id)
  \/ \E id \in LifeSpanIds : on_exit(MainThread, id)
  \/ \E id \in LifeSpanIds : on_close(id)
  \/ \E fields \in LifeEventAttrLists, leaf \in {0} \cup LifeSpanIds :
       on_event("INFO", fields, leaf)

Spec == Init /\ [][Next]_vars

\* A chain of nested spans is built root first, then one event is rendered
\* inside the innermost span (outside any span while the chain is empty).
NoEmit == last.op # "on_event"

ChainDepth == Cardinality({ i \in SpanIds : Registered(i) })

RegisterNested(id) ==
  /\ NoEmit
  /\ id <= Len(ChainNames)
  /\ id = ChainDepth + 1
  /\ id = 1 \/ HasActivity(id - 1)
  /\ Register(id, ChainCallsite(id), id - 1)

CreateNested(attrs, id) ==
  /\ NoEmit
  /\ Registered(id)
  /\ NeedsActivity(id)
  /\ on_new_span(attrs, id)

\* The level and the fields of the event are varied one at a time.
RenderEvent(level, fields, leaf) ==
  /\ NoEmit
  /\ level = "INFO" \/ fields = <<>>
  /\ leaf = ChainDepth
  /\ on_event(level, fields, leaf)

NextRender ==
  \/ \E id \in SpanIds : RegisterNested(id)
  \/ \E attrs \in SpanAttrLists, id \in SpanIds : CreateNested(attrs, id)
  \/ \E level \in Levels, fields \in EventAttrLists, leaf \in 0..MaxSpans :
       RenderEvent(level, fields, leaf)

SpecRender == Init /\ [][NextRender]_vars

\* --------------------------------------- on_new_span, one step at a time

\* The shared state a step leaves alone is named step by step; last belongs
\* to the sequential runs.

\* As NamesLockFree, for a mutex that excludes nobody.
NamesLockFreeAlways == TRUE

\* NAMES.lock() can be taken.
NamesLockFree == namesLock = 0

\* The signature the callback of thread t builds.
FullName(t) ==
  Signature(spans[call[t].id].callsite, Record(call[t].attrs, EmptyMap))

\* As Unwind, with the NAMES guard never dropped.
UnwindKeepsNames(t) ==
  /\ namesLock' = namesLock
  /\ extLock' = [i \in SpanIds |-> IF extLock[i] = t THEN 0 ELSE extLock[i]]
  /\ call' = [call EXCEPT ![t] = [Idle EXCEPT !.result = "panic",
                                              !.id = call[t].id,
                                              !.attrs = call[t].attrs]]
  /\ pc' = [pc EXCEPT ![t] = "idle"]

\* A panic unwinds: the guards thread t holds are dropped. The span and the
\* fields of the failed call stay on record.
Unwind(t) ==
  /\ namesLock' = IF namesLock = t THEN 0 ELSE namesLock
  /\ extLock' = [i \in SpanIds |-> IF extLock[i] = t THEN 0 ELSE extLock[i]]
  /\ call' = [call EXCEPT ![t] = [Idle EXCEPT !.result = "panic",
                                              !.id = call[t].id,
                                              !.attrs = call[t].attrs]]
  /\ pc' = [pc EXCEPT ![t] = "idle"]

\* ctx.span(id).expect(..); let mut extensions = span.extensions_mut();
ns_begin(t, attrs, id) ==
  /\ pc[t] = "idle"
  /\ IF ~Registered(id)
     THEN /\ call' = [call EXCEPT ![t] = [Idle EXCEPT !.result = "panic"]]
          /\ UNCHANGED <<pc, extLock>>
     ELSE /\ extLock[id] = 0
          /\ extLock' = [extLock EXCEPT ![id] = t]
          /\ call' = [call EXCEPT ![t] =
                        [Idle EXCEPT !.id = id, !.attrs = attrs]]
          /\ pc' = [pc EXCEPT ![t] = "check"]
  /\ UNCHANGED entered
  /\ UNCHANGED <<spans, ext, NAMES, cstrings, activities, state, current,
                 last, namesLock>>

\* if extensions.get_mut::<Activity>().is_none() { .. }
ns_check(t) ==
  /\ pc[t] = "check"
  /\ IF NeedsActivity(call[t].id)
     THEN /\ pc' = [pc EXCEPT ![t] = "lock"]
          /\ UNCHANGED <<call, extLock>>
     ELSE /\ pc' = [pc EXCEPT ![t] = "idle"]
          /\ call' = [call EXCEPT ![t] = Idle]
          /\ extLock' = [extLock EXCEPT ![call[t].id] = 0]
  /\ UNCHANGED entered
  /\ UNCHANGED <<spans, ext, NAMES, cstrings, activities, state, current,
                 last, namesLock>>

\* let mut names = NAMES.lock();
ns_lock(t) ==
  /\ pc[t] = "lock"
  /\ NamesLockFree
  /\ namesLock' = t
  /\ pc' = [pc EXCEPT ![t] = "parent"]
  /\ UNCHANGED entered
  /\ UNCHANGED <<spans, ext, NAMES, cstrings, activities, state, current,
                 last, call, extLock>>

\* let parent_activity = match span.parent() { .. }; the parent's
\* extensions are read under its lock, which a writer keeps this thread from.
ns_parent(t) ==
  /\ pc[t] = "parent"
  /\ LET p == ParentOf(call[t].id)
     IN IF p = 0
        THEN /\ call' = [call EXCEPT ![t].parent_activity = OsActivityCurrent]
             /\ pc' = [pc EXCEPT ![t] = "lookup"]
             /\ UNCHANGED <<extLock, namesLock>>
        ELSE /\ extLock[p] = 0
             /\ IF HasActivity(p)
                THEN /\ call' = [call EXCEPT
                                   ![t].parent_activity = ext[p].activity]
                     /\ pc' = [pc EXCEPT ![t] = "lookup"]
                     /\ UNCHANGED <<extLock, namesLock>>
                ELSE Unwind(t)
  /\ UNCHANGED entered
  /\ UNCHANGED <<spans, ext, NAMES, cstrings, activities, state, current,
                 last>>

\* names.entry(full_name.clone()): the lookup
ns_lookup(t) ==
  /\ pc[t] = "lookup"
  /\ call' = [call EXCEPT ![t].found = Interned(NAMES, FullName(t))]
  /\ pc' = [pc EXCEPT ![t] = "insert"]
  /\ UNCHANGED entered
  /\ UNCHANGED <<spans, ext, NAMES, cstrings, activities, state, current,
                 last, extLock, namesLock>>

\* .or_insert_with(|| CString::new(full_name).expect(..)): a vacant entry
\* is filled with a newly allocated CString.
ns_insert(t) ==
  /\ pc[t] = "insert"
  /\ IF call[t].found
     THEN /\ pc' = [pc EXCEPT ![t] = "create"]
          /\ UNCHANGED <<NAMES, cstrings, call, extLock, namesLock>>
     ELSE IF CStringNewFails(FullName(t))
     THEN /\ Unwind(t)
          /\ UNCHANGED <<NAMES, cstrings>>
     ELSE /\ cstrings' = Append(cstrings, FullName(t))
          /\ NAMES' = (FullName(t) :> Len(cstrings) + 1) @@ NAMES
          /\ pc' = [pc EXCEPT ![t] = "create"]
          /\ UNCHANGED <<call, extLock, namesLock>>
  /\ UNCHANGED entered
  /\ UNCHANGED <<spans, ext, activities, state, current, last>>

\* let activity = _os_activity_create(dso, name.as_ptr(), parent_activity, ..)
ns_create(t) ==
  /\ pc[t] = "create"
  /\ activities' =
       Append(activities,
              NewActivity(NAMES[FullName(t)], call[t].parent_activity,
                          call[t].id, call[t].attrs))
  /\ call' = [call EXCEPT ![t].activity = Len(activities) + 1]
  /\ pc' = [pc EXCEPT ![t] = "attach"]
  /\ UNCHANGED entered
  /\ UNCHANGED <<spans, ext, NAMES, cstrings, state, current, last,
                 extLock, namesLock>>

\* As ns_attach, with the NAMES guard never dropped.
ns_attach_keeps_names(t) ==
  /\ pc[t] = "attach"
  /\ ext' = [ext EXCEPT ![call[t].id] =
               [activity |-> call[t].activity,
                attributes |->
                  StoredAttributes(Record(call[t].attrs, EmptyMap))]]
  /\ extLock' = [extLock EXCEPT ![call[t].id] = 0]
  /\ call' = [call EXCEPT ![t] = Idle]
  /\ pc' = [pc EXCEPT ![t] = "idle"]
  /\ UNCHANGED <<entered, namesLock>>
  /\ UNCHANGED <<spans, NAMES, cstrings, activities, state, current, last>>

\* extensions.insert(Activity { activity, attributes }); then names and
\* extensions go out of scope.
ns_attach(t) ==
  /\ pc[t] = "attach"
  /\ ext' = [ext EXCEPT ![call[t].id] =
               [activity |-> call[t].activity,
                attributes |->
                  StoredAttributes(Record(call[t].attrs, EmptyMap))]]
  /\ namesLock' = IF namesLock = t THEN 0 ELSE namesLock
  /\ extLock' = [extLock EXCEPT ![call[t].id] = 0]
  /\ call' = [call EXCEPT ![t] = Idle]
  /\ pc' = [pc EXCEPT ![t] = "idle"]
  /\ UNCHANGED entered
  /\ UNCHANGED <<spans, NAMES, cstrings, activities, state, current, last>>

\* The spans, fields and callsites of the concurrent runs.
ConcSpanIds == 1..(MaxSpans - 1)
ConcSpanAttrLists ==
  { <<>>, << <<"user", "alice">> >>, << <<"user", "al" \o Nul \o "ce">> >> }
ConcCallsites == { cs \in Callsites : cs.name = "a" }

\* Spans are registered at any time; every thread runs on_new_span for any
\* span with any fields, its steps interleaved with the other threads'.
NextConc ==
  \/ \E id \in ConcSpanIds, cs \in ConcCallsites,
        parent \in {0} \cup ConcSpanIds :
       Register(id, cs, parent)
  \/ \E t \in Threads, attrs \in ConcSpanAttrLists, id \in ConcSpanIds :
       ns_begin(t, attrs, id)
  \/ \E t \in Threads : ns_check(t)
  \/ \E t \in Threads : ns_lock(t)
  \/ \E t \in Threads : ns_parent(t)
  \/ \E t \in Threads : ns_lookup(t)
  \/ \E t \in Threads : ns_insert(t)
  \/ \E t \in Threads : ns_create(t)
  \/ \E t \in Threads : ns_attach(t)

SpecConc == Init /\ [][NextConc]_vars

\* ------------------- on_enter, on_exit, on_close, on_event, step by step

\* ctx.span(id).expect(..); let mut extensions = span.extensions_mut();
en_begin(t, id) ==
  /\ pc[t] = "idle"
  /\ IF ~Registered(id)
     THEN /\ call' = [call EXCEPT ![t] = [Idle EXCEPT !.result = "panic"]]
          /\ UNCHANGED <<pc, extLock>>
     ELSE /\ extLock[id] = 0
          /\ extLock' = [extLock EXCEPT ![id] = t]
          /\ call' = [call EXCEPT ![t] = [Idle EXCEPT !.id = id]]
          /\ pc' = [pc EXCEPT ![t] = "enter"]
  /\ UNCHANGED <<spans, ext, NAMES, cstrings, activities, state, current,
                 last, namesLock>>

\* extensions.get_mut::<Activity>().expect(..);
\* os_activity_scope_enter(**activity, &self.state)
en_call(t) ==
  /\ pc[t] = "enter"
  /\ IF ~HasActivity(call[t].id)
     THEN /\ Unwind(t)
          /\ UNCHANGED <<state, current>>
     ELSE /\ state' = [prev |-> current[t],
                        scope |-> ext[call[t].id].activity]
          /\ current' = [current EXCEPT ![t] = ext[call[t].id].activity]
          /\ extLock' = [extLock EXCEPT ![call[t].id] = 0]
          /\ call' = [call EXCEPT ![t] = Idle]
          /\ pc' = [pc EXCEPT ![t] = "idle"]
          /\ UNCHANGED namesLock
  /\ UNCHANGED entered
  /\ UNCHANGED <<spans, ext, NAMES, cstrings, activities, last>>

\* As ex_call, with the scope the thread itself had entered before put
\* back, as a buffer per thread would.
ex_call_own(t, id) ==
  /\ pc[t] = "idle"
  /\ current' =
       [current EXCEPT ![t] =
          IF Len(entered[t]) <= 1 THEN OsActivityCurrent
          ELSE ext[entered[t][Len(entered[t]) - 1]].activity]
  /\ call' = [call EXCEPT ![t] = Idle]
  /\ UNCHANGED <<spans, ext, NAMES, cstrings, activities, state, last,
                 pc, extLock, namesLock>>

\* os_activity_scope_leave(&self.state): no lookup, no lock
ex_call(t, id) ==
  /\ pc[t] = "idle"
  /\ current' = [current EXCEPT ![t] = state.prev]
  /\ call' = [call EXCEPT ![t] = Idle]
  /\ UNCHANGED <<spans, ext, NAMES, cstrings, activities, state, last,
                 pc, extLock, namesLock>>

\* ctx.span(&id).expect(..); let mut extensions = span.extensions_mut();
cl_begin(t, id) ==
  /\ pc[t] = "idle"
  /\ IF ~Registered(id)
     THEN /\ call' = [call EXCEPT ![t] = [Idle EXCEPT !.result = "panic"]]
          /\ UNCHANGED <<pc, extLock>>
     ELSE /\ extLock[id] = 0
          /\ extLock' = [extLock EXCEPT ![id] = t]
          /\ call' = [call EXCEPT ![t] = [Idle EXCEPT !.id = id]]
          /\ pc' = [pc EXCEPT ![t] = "close"]
  /\ UNCHANGED <<spans, ext, NAMES, cstrings, activities, state, current,
                 last, namesLock>>

\* extensions.remove::<Activity>().expect(..): the Activity is dropped
cl_call(t) ==
  /\ pc[t] = "close"
  /\ IF ~CloseFinds(call[t].id)
     THEN /\ Unwind(t)
          /\ UNCHANGED <<spans, ext, activities>>
     ELSE /\ ext' = [ext EXCEPT ![call[t].id] = NoActivity]
          /\ activities' = Released(activities, ext[call[t].id].activity)
          /\ spans' = [spans EXCEPT ![call[t].id].closed = TRUE]
          /\ extLock' = [extLock EXCEPT ![call[t].id] = 0]
          /\ call' = [call EXCEPT ![t] = Idle]
          /\ pc' = [pc EXCEPT ![t] = "idle"]
          /\ UNCHANGED namesLock
  /\ UNCHANGED entered
  /\ UNCHANGED <<NAMES, cstrings, state, current, last>>

\* The level, the event's fields and ctx.event_scope(event).from_root().
ev_begin(t, level, fields, leaf) ==
  /\ pc[t] = "idle"
  /\ leaf = 0 \/ Registered(leaf)
  /\ call' = [call EXCEPT ![t] =
                [Idle EXCEPT !.id = leaf, !.attrs = fields,
                             !.level = LevelMap(level),
                             !.scope = ScopeOrder(leaf)]]
  /\ pc' = [pc EXCEPT ![t] = "scope"]
  /\ UNCHANGED <<spans, ext, NAMES, cstrings, activities, state, current,
                 last, extLock, namesLock>>

\* One turn of the loop: span.extensions() is read, which a writer keeps
\* this thread from, and dropped at the end of the turn.
ev_span(t) ==
  /\ pc[t] = "scope"
  /\ call[t].scope # <<>>
  /\ LET id == Head(call[t].scope)
     IN /\ extLock[id] = 0
        /\ IF ~HasActivity(id)
           THEN Unwind(t)
           ELSE /\ call' = [call EXCEPT
                              ![t].message =
                                 @ \o SpanSegment(spans[id].callsite.name,
                                                  ext[id].attributes),
                              ![t].scope = Tail(@)]
                /\ UNCHANGED <<pc, extLock, namesLock>>
  /\ UNCHANGED entered
  /\ UNCHANGED <<spans, ext, NAMES, cstrings, activities, state, current,
                 last>>

\* The event's own part, CString::new(..).expect(..) and
\* wrapped_os_log_with_type(self.logger, level, message)
ev_emit(t) ==
  /\ pc[t] = "scope"
  /\ call[t].scope = <<>>
  /\ IF CStringNewFails(call[t].message
                          \o EventPart(Record(call[t].attrs, EmptyMap)))
     THEN Unwind(t)
     ELSE /\ call' = [call EXCEPT ![t] = Idle]
          /\ pc' = [pc EXCEPT ![t] = "idle"]
          /\ UNCHANGED <<extLock, namesLock>>
  /\ UNCHANGED entered
  /\ UNCHANGED <<spans, ext, NAMES, cstrings, activities, state, current,
                 last>>

\* --------------------------------------------------- lifecycle-ordered runs

\* The registry delivers the callbacks of a span in order: on_new_span when
\* it has registered the span, under a parent still open; on_enter and
\* on_exit in LIFO pairs per thread; on_close when no thread is inside the
\* span and every child is closed.

Closing(id) == \E u \in Threads : pc[u] = "close" /\ call[u].id = id

Open(id) == HasActivity(id) /\ ~spans[id].closed /\ ~Closing(id)

InScope(t, id) == \E i \in 1..Len(entered[t]) : entered[t][i] = id

Top(t) == IF entered[t] = <<>> THEN 0 ELSE entered[t][Len(entered[t])]

OrdSpanIds == 1..(MaxSpans - 1)

NewSpan(id, cs, parent) ==
  /\ parent = 0 \/ Open(parent)
  /\ \A i \in OrdSpanIds : i < id => Registered(i)
  /\ Register(id, cs, parent)

Create(t, attrs, id) ==
  /\ Registered(id)
  /\ NeedsActivity(id)
  /\ ~spans[id].closed
  /\ ns_begin(t, attrs, id)

Enter(t, id) ==
  /\ Open(id)
  /\ ~InScope(t, id)
  /\ en_begin(t, id)
  /\ entered' = [entered EXCEPT ![t] = Append(@, id)]

Exit(t) ==
  /\ entered[t] # <<>>
  /\ ex_call(t, Top(t))
  /\ entered' = [entered EXCEPT ![t] = SubSeq(@, 1, Len(@) - 1)]

Close(t, id) ==
  /\ Open(id)
  /\ \A u \in Threads : ~InScope(u, id)
  /\ \A c \in OrdSpanIds :
       (Registered(c) /\ spans[c].parent = id) => spans[c].closed
  /\ cl_begin(t, id)
  /\ UNCHANGED entered

FireEvent(t, fields) ==
  /\ ev_begin(t, "INFO", fields, Top(t))
  /\ UNCHANGED entered

OrdSpanAttrLists == { <<>> }

\* Spans are created, entered and left by the threads of T.
Scoped(T) ==
  \/ \E id \in OrdSpanIds, cs \in LifeCallsites,
        parent \in {0} \cup OrdSpanIds :
       NewSpan(id, cs, parent)
  \/ \E t \in T, attrs \in OrdSpanAttrLists, id \in OrdSpanIds :
       Create(t, attrs, id)
  \/ \E t \in T : ns_check(t)
  \/ \E t \in T : ns_lock(t)
  \/ \E t \in T : ns_parent(t)
  \/ \E t \in T : ns_lookup(t)
  \/ \E t \in T : ns_insert(t)
  \/ \E t \in T : ns_create(t)
  \/ \E t \in T : ns_attach(t)
  \/ \E t \in T, id \in OrdSpanIds : Enter(t, id)
  \/ \E t \in T : en_call(t)
  \/ \E t \in T : Exit(t)

\* And events are fired inside them, and they are closed.
Ordered(T) ==
  \/ Scoped(T)
  \/ \E t \in T, id \in OrdSpanIds : Close(t, id)
  \/ \E t \in T : cl_call(t)
  \/ \E t \in T, fields \in LifeEventAttrLists : FireEvent(t, fields)
  \/ \E t \in T : ev_span(t)
  \/ \E t \in T : ev_emit(t)

\* One thread.
NextNest == Ordered({MainThread})

SpecNest == Init /\ [][NextNest]_vars

\* Every thread, entering and leaving spans.
NextShared == Scoped(Threads)

SpecShared == Init /\ [][NextShared]_vars

\* Every thread, in every callback.
NextLocks == Ordered(Threads)

SpecLocks == Init /\ [][NextLocks]_vars

\* A thread inside a callback goes on running. A thread waiting to read a
\* span's extensions gets the lock if it is free again and again, other
\* threads taking it in between; the waiters on the NAMES mutex need no
\* more than to get it when it stays free.
Scheduling ==
  \A t \in Threads :
    /\ WF_vars(ns_check(t))
    /\ WF_vars(ns_lock(t))
    /\ SF_vars(ns_parent(t))
    /\ WF_vars(ns_lookup(t))
    /\ WF_vars(ns_insert(t))
    /\ WF_vars(ns_create(t))
    /\ WF_vars(ns_attach(t))
    /\ WF_vars(en_call(t))
    /\ WF_vars(cl_call(t))
    /\ SF_vars(ev_span(t))
    /\ WF_vars(ev_emit(t))

SpecLocksFair == SpecLocks /\ Scheduling

\* ------------------------------------------------------- claims on rendering

\* The last callback was an on_event that reached the native emit call.
Emitted == last.op = "on_event" /\ last.result = "ok"

\* The spans enclosing an event under leaf, outermost first, by the parent
\* links of the registry.
RECURSIVE EnclosingRootFirst(_)
EnclosingRootFirst(leaf) ==
  IF leaf = 0 THEN <<>>
  ELSE Append(EnclosingRootFirst(spans[leaf].parent), leaf)

\* The concatenation of a sequence of strings.
RECURSIVE Concat(_)
Concat(parts) == IF parts = <<>> THEN "" ELSE Head(parts) \o Concat(Tail(parts))

\* A key of the reserved "log." family.
ReservedKey(k) == Len(k) >= 4 /\ SubSeq(k, 1, 4) = "log."

\* The entries of a field list that are to be shown.
Shown(m) == SelectSeq(m, LAMBDA e : ~ReservedKey(e[1]))

KeyValue(m, sep) == [i \in 1..Len(m) |-> m[i][1] \o sep \o m[i][2]]

\* The segments the spans enclosing the last event were rendered to.
RenderedSegments ==
  [i \in 1..Len(EnclosingRootFirst(last.id)) |->
     LET id == EnclosingRootFirst(last.id)[i]
     IN spans[id].callsite.name \o SpanAttrBlock(ext[id].attributes) \o ": "]

NamesOnly ==
  [i \in 1..Len(EnclosingRootFirst(last.id)) |->
     spans[EnclosingRootFirst(last.id)[i]].callsite.name \o ": "]

\* C4: the message of an event starts with one segment per enclosing span,
\* outermost first, each the span's name, its attribute block and ": ", and
\* the event's own part follows at once; spans a > b > c without attributes
\* give the prefix "a: b: c: ", and no enclosing span gives an empty prefix.
C4_PrefixRootToLeaf ==
  Emitted =>
    LET chain == EnclosingRootFirst(last.id)
        own == EventPart(Record(last.attrs, EmptyMap))
        text == last.native.text
    IN /\ text = Concat(RenderedSegments) \o own
       /\ (\A i \in 1..Len(chain) : ext[chain[i]].attributes = EmptyMap)
            => text = Concat(NamesOnly) \o own
       /\ (/\ Len(chain) = 3
           /\ \A i \in 1..3 : /\ ext[chain[i]].attributes = EmptyMap
                              /\ spans[chain[i]].callsite.name = ChainNames[i])
            => SubSeq(text, 1, 9) = "a: b: c: "
       /\ chain = <<>> => text = own

C4_Witness ==
  /\ Emitted
  /\ Len(EnclosingRootFirst(last.id)) = 3
  /\ last.native.text = "a: b: c: done  code=7"

\* The attribute block as the claim words it: braces exactly when some key
\* is not reserved, around those entries as key=value joined by ",".
ClaimedBlock(m) ==
  IF Shown(m) = <<>> THEN ""
  ELSE "{" \o Join(KeyValue(Shown(m), "="), ",") \o "}"

\* C5: a span's segment has the brace-delimited block if and only if its map
\* has an entry whose key is not prefixed "log.", listing exactly those as
\* key=value joined by ","; a span whose attributes are all "log."-prefixed
\* renders as the bare name and ": ".
C5_BracesIffShownEntry ==
  Emitted =>
    last.native.text =
      Concat([i \in 1..Len(EnclosingRootFirst(last.id)) |->
                LET id == EnclosingRootFirst(last.id)[i]
                IN spans[id].callsite.name
                     \o ClaimedBlock(ext[id].attributes) \o ": "])
        \o EventPart(Record(last.attrs, EmptyMap))

\* The event's own part as the claim words it.
ClaimedEventPart(fields) ==
  LET rest == SelectSeq(Shown(fields), LAMBDA e : e[1] # "message")
      said == SelectSeq(fields, LAMBDA e : e[1] = "message")
  IN (IF said = <<>> THEN "" ELSE said[1][2] \o "  ")
       \o Join(KeyValue(rest, "="), " ")

\* C6: the event's own part is the "message" value and two spaces when there
\* is a "message" key, then every other attribute whose key is not prefixed
\* "log." as key=value, separated by single spaces, in collection order.
C6_EventPart ==
  Emitted =>
    /\ last.native.text =
         ScopeLoop(ScopeSpans(last.id)) \o ClaimedEventPart(last.attrs)
    /\ last.attrs = << <<"message", "done">>, <<"code", "7">> >>
         => EventPart(Record(last.attrs, EmptyMap)) = "done  code=7"

C6_Witness ==
  /\ Emitted
  /\ last.attrs = << <<"n", "1">>, <<"message", "done">>, <<"code", "7">> >>
  /\ last.native.text = "done  n=1 code=7"

\* A field list with the value of every reserved key blanked.
Blanked(m) ==
  [i \in 1..Len(m) |-> IF ReservedKey(m[i][1]) THEN <<m[i][1], "">> ELSE m[i]]

\* C7: no attribute whose key starts with "log." contributes its key or its
\* value to the message, on a span or on the event: the text holds no
\* "log." and is the same whatever the values of those attributes are.
C7_ReservedNeverRendered ==
  Emitted =>
    /\ ~Contains(last.native.text, "log.")
    /\ last.native.text =
         ScopeLoop([i \in 1..Len(ScopeSpans(last.id)) |->
                      [name |-> ScopeSpans(last.id)[i].name,
                       attributes |->
                         Blanked(ScopeSpans(last.id)[i].attributes)]])
           \o EventPart(Record(Blanked(last.attrs), EmptyMap))

\* An event with a reserved field was rendered inside a span whose map
\* still stores a reserved attribute.
C7_Witness ==
  /\ Emitted
  /\ \E i \in 1..Len(last.attrs) : ReservedKey(last.attrs[i][1])
  /\ last.id # 0
  /\ \E i \in 1..Len(ext[last.id].attributes) :
       ReservedKey(ext[last.id].attributes[i][1])
  /\ \E i \in 1..Len(ext[last.id].attributes) :
       ~ReservedKey(ext[last.id].attributes[i][1])

\* The severity table of the claim.
ClaimedSeverity ==
  [l \in Levels |->
     IF l \in { "TRACE", "DEBUG" } THEN "OS_LOG_TYPE_DEBUG"
     ELSE IF l = "INFO" THEN "OS_LOG_TYPE_INFO"
     ELSE "OS_LOG_TYPE_ERROR"]

\* C8: TRACE and DEBUG are emitted at native debug, INFO at native info,
\* WARN and ERROR at native error; the level of the emit call is always the
\* image of the event's level.
C8_SeverityMapping ==
  /\ \A l \in Levels : LevelMap(l) = ClaimedSeverity[l]
  /\ Emitted => last.native.level = ClaimedSeverity[last.level]

C8_Witness ==
  /\ Emitted
  /\ last.level = "WARN"
  /\ last.native.level = "OS_LOG_TYPE_ERROR"

\* ------------------------------------------------- claims on the lifecycle

Handles == 1..Len(activities)

\* The spans whose extension slot holds an Activity Node.
Holders == { s \in SpanIds : HasActivity(s) }

HeldBy(h) == { s \in SpanIds : HasActivity(s) /\ ext[s].activity = h }

\* C1: the native release call has been issued once for the handle of every
\* closed span and never for the handle of a span that still holds its
\* node, and the handles created and not released are as many as the spans
\* holding an Activity Node.
C1_ReleasedOnceOnClose ==
  /\ \A h \in Handles :
       /\ activities[h].released = (IF HeldBy(h) = {} THEN 1 ELSE 0)
       /\ HeldBy(h) \subseteq { activities[h].made_for }
       /\ spans[activities[h].made_for].closed => activities[h].released = 1
  /\ \A s \in SpanIds :
       spans[s].closed =>
         Cardinality({ h \in Handles : activities[h].made_for = s }) = 1
  /\ Cardinality({ h \in Handles : activities[h].released = 0 })
       = Cardinality(Holders)

\* One span has just been closed, its handle released, while another span
\* still holds its node.
C1_Witness ==
  /\ \E s \in SpanIds : spans[s].closed
  /\ Holders # {}
  /\ last.op = "on_close"
  /\ last.result = "ok"
  /\ activities[last.native.handle].released = 1

\* C2: on_new_span on a span that already holds an Activity Node changes
\* neither the node, nor the interner, nor the native activities created,
\* whatever attributes it is given.
C2_NewSpanIdempotent ==
  [][(last'.op = "on_new_span" /\ HasActivity(last'.id))
       => /\ ext' = ext
          /\ NAMES' = NAMES
          /\ cstrings' = cstrings
          /\ activities' = activities
          /\ last'.result = "ok"]_vars

\* on_new_span came again for a span holding a node, with other attributes.
C2_Witness ==
  /\ last.op = "on_new_span"
  /\ last.result = "ok"
  /\ last.native = NoNative
  /\ HasActivity(last.id)
  /\ last.attrs # activities[ext[last.id].activity].made_with

\* C9: on_close on a span with no Activity Node, a second on_close
\* included, does not return normally and issues no release call, and no
\* handle is ever released more than once.
C9_CloseWithoutNodeFatal ==
  /\ [][(last'.op = "on_close" /\ ~HasActivity(last'.id))
          => /\ last'.result = "panic"
             /\ last'.native = NoNative
             /\ activities' = activities
             /\ ext' = ext]_vars
  /\ [](\A h \in Handles : activities[h].released <= 1)

\* A second on_close came for a span already closed.
C9_Witness ==
  /\ last.op = "on_close"
  /\ last.result = "panic"
  /\ spans[last.id].closed
  /\ \E h \in Handles : activities[h].made_for = last.id

\* C10: the attribute map of a span's Activity Node is the fields the span
\* was created with, in their order, from on_new_span until the span is
\* closed, and the events rendered inside the span show those fields.
C10_AttributesFrozen ==
  /\ \A s \in Holders :
       /\ ext[s].attributes = activities[ext[s].activity].made_with
       /\ activities[ext[s].activity].made_for = s
  /\ (last.op = "on_new_span" /\ last.native.fn = "_os_activity_create")
       => ext[last.id].attributes = last.attrs
  /\ Emitted =>
       last.native.text =
         Concat([i \in 1..Len(EnclosingRootFirst(last.id)) |->
                   LET id == EnclosingRootFirst(last.id)[i]
                   IN spans[id].callsite.name
                        \o SpanAttrBlock(activities[ext[id].activity].made_with)
                        \o ": "])
           \o EventPart(Record(last.attrs, EmptyMap))

\* A span created with two fields was announced again with none.
C10_Witness ==
  /\ last.op = "on_new_span"
  /\ last.native = NoNative
  /\ last.attrs = <<>>
  /\ HasActivity(last.id)
  /\ ext[last.id].attributes = << <<"user", "alice">>, <<"log.t", "x">> >>
  /\ state.prev # 0

\* The signature "target::name(k1: v1, k2: v2, ...)" of the span an
\* activity was made for, with the fields it was made with.
ClaimedSignature(h) ==
  spans[activities[h].made_for].callsite.target \o "::"
    \o spans[activities[h].made_for].callsite.name
    \o "(" \o Join(KeyValue(activities[h].made_with, ": "), ", ") \o ")"

\* C3: whatever the interleaving of on_new_span calls of concurrent
\* threads, the interner holds exactly one native string per signature
\* interned: no signature is allocated twice, every cached handle is the
\* string of its signature, and two activities are given the same name
\* handle exactly when the signatures of their spans are equal.
C3_OneStringPerSignature ==
  /\ \A i, j \in 1..Len(cstrings) : cstrings[i] = cstrings[j] => i = j
  /\ Cardinality(DOMAIN NAMES) = Len(cstrings)
  /\ \A sig \in DOMAIN NAMES :
       NAMES[sig] \in 1..Len(cstrings) /\ cstrings[NAMES[sig]] = sig
  /\ \A h \in Handles :
       /\ ClaimedSignature(h) \in DOMAIN NAMES
       /\ activities[h].name = NAMES[ClaimedSignature(h)]
  /\ \A h, g \in Handles :
       (ClaimedSignature(h) = ClaimedSignature(g))
         <=> (activities[h].name = activities[g].name)

\* A thread that found the signature of its span cached has created its
\* activity with the handle an earlier span was given, while another
\* thread is inside on_new_span.
C3_Witness ==
  /\ \E t, u \in Threads :
       /\ t # u
       /\ pc[t] = "attach"
       /\ call[t].found
       /\ pc[u] # "idle"
       /\ \E g \in Handles :
            /\ g # call[t].activity
            /\ activities[g].name = activities[call[t].activity].name
            /\ activities[g].made_for # call[t].id
  /\ Len(cstrings) >= 1

\* C11: on_enter and on_exit for a span that holds no Activity Node, never
\* created or already closed, do not return normally and issue no native
\* scope-enter or scope-leave call.
C11_EnterExitWithoutNodeFatal ==
  [][(last'.op \in { "on_enter", "on_exit" } /\ ~HasActivity(last'.id))
       => /\ last'.result = "panic"
          /\ last'.native = NoNative
          /\ current' = current
          /\ state' = state]_vars

\* C12: when on_new_span creates a node, the native activity is made a child
\* of the handle in the parent span's node, or of the ambient activity for a
\* root span; when the parent span holds no node the callback does not
\* return normally, creates no activity, attaches no node and interns
\* nothing.
C12_ChildOfParentHandle ==
  [][(last'.op = "on_new_span" /\ Registered(last'.id)
        /\ ~HasActivity(last'.id))
       => LET id == last'.id
              p == spans[id].parent
          IN IF p # 0 /\ ~HasActivity(p)
             THEN /\ last'.result = "panic"
                  /\ last'.native = NoNative
                  /\ activities' = activities
                  /\ ext' = ext
                  /\ NAMES' = NAMES
                  /\ cstrings' = cstrings
             ELSE last'.result = "ok"
                    => /\ Len(activities') = Len(activities) + 1
                       /\ ext'[id].activity = Len(activities')
                       /\ activities'[Len(activities')].parent
                            = (IF p = 0 THEN OsActivityCurrent
                               ELSE ext[p].activity)
                       /\ last'.native.fn = "_os_activity_create"
                       /\ last'.native.handle
                            = activities'[Len(activities')].parent]_vars

\* A span was given its node under a parent span that holds one, and the
\* new activity is a child of the parent's handle.
C12_Witness ==
  /\ last.op = "on_new_span"
  /\ last.native.fn = "_os_activity_create"
  /\ spans[last.id].parent # 0
  /\ HasActivity(spans[last.id].parent)
  /\ last.native.handle = ext[spans[last.id].parent].activity
  /\ last.native.handle # OsActivityCurrent
  /\ activities[ext[last.id].activity].parent = last.native.handle

\* The signature of the call thread t is in, or failed in.
CallSignature(t) ==
  spans[call[t].id].callsite.target \o "::"
    \o spans[call[t].id].callsite.name
    \o "(" \o Join(KeyValue(call[t].attrs, ": "), ", ") \o ")"

\* C13: an on_new_span whose signature holds an embedded NUL fails at the
\* interner and leaves everything as it was: no step of the call changes the
\* interner, the activities or the nodes, the failing step ends the call
\* with the NAMES lock and the span's lock free again, and no interned
\* signature ever holds a NUL.
C13_NulSignatureFatal ==
  /\ [][\A t \in Threads :
          (pc[t] # "idle" /\ pc'[t] # pc[t]
             /\ Contains(CallSignature(t), Nul))
            => /\ NAMES' = NAMES
               /\ cstrings' = cstrings
               /\ activities' = activities
               /\ ext' = ext
               /\ pc[t] = "insert"
                    => /\ pc'[t] = "idle"
                       /\ call'[t].result = "panic"
                       /\ namesLock = t
                       /\ namesLock' = 0
                       /\ \A i \in SpanIds : extLock'[i] # t]_vars
  /\ [](\A sig \in DOMAIN NAMES : ~Contains(sig, Nul))
  /\ [](\A i \in 1..Len(cstrings) : ~Contains(cstrings[i], Nul))

\* The call of one thread for a root span failed on a NUL in its signature,
\* the span has no node and the signature is not interned, and another
\* thread has since taken the NAMES lock and created an activity.
C13_Witness ==
  \E t, u \in Threads :
    /\ t # u
    /\ pc[t] = "idle"
    /\ call[t].result = "panic"
    /\ call[t].id # 0
    /\ spans[call[t].id].parent = 0
    /\ Contains(CallSignature(t), Nul)
    /\ ~HasActivity(call[t].id)
    /\ CallSignature(t) \notin DOMAIN NAMES
    /\ pc[u] = "attach"
    /\ namesLock = u

\* C16: the NAMES lock is held only while the signature is looked up or
\* inserted: not while the parent span's node is looked up, nor while the
\* native activity is created and attached; and a thread holding it does
\* not stand at the point of taking it.
C16_NamesLockOnlyForIntern ==
  \A t \in Threads :
    namesLock = t => pc[t] \in { "lookup", "insert" }

\* The native call the claim gives each callback.
ClaimedCall ==
  [ on_new_span |-> "_os_activity_create",
    on_enter |-> "os_activity_scope_enter",
    on_exit |-> "os_activity_scope_leave",
    on_close |-> "os_release",
    on_event |-> "wrapped_os_log_with_type" ]

\* C17 as stated: every callback that completes has made the one native
\* call of its kind.
C17_OneNativeCallEach ==
  (last.op \in DOMAIN ClaimedCall /\ last.result = "ok")
    => last.native.fn = ClaimedCall[last.op]

\* C17, amended: every callback that completes makes the one native call of
\* its kind and no other, with the span's handle for on_enter and on_close
\* and the mapped level and rendered text for on_event, except on_new_span
\* for a span that already holds a node, which makes none.
C17_OneNativeCallUnlessRevisit ==
  /\ [][(last'.op \in DOMAIN ClaimedCall /\ last'.result = "ok")
          => LET id == last'.id
                 made == last'.native
             IN CASE last'.op = "on_new_span" ->
                       IF HasActivity(id)
                       THEN made = NoNative /\ activities' = activities
                       ELSE /\ made.fn = ClaimedCall.on_new_span
                            /\ Len(activities') = Len(activities) + 1
                            /\ SubSeq(activities', 1, Len(activities))
                                 = activities
                  [] last'.op = "on_enter" ->
                       /\ made.fn = ClaimedCall.on_enter
                       /\ made.handle = ext[id].activity
                       /\ activities' = activities
                  [] last'.op = "on_exit" ->
                       /\ made.fn = ClaimedCall.on_exit
                       /\ activities' = activities
                  [] last'.op = "on_close" ->
                       /\ made.fn = ClaimedCall.on_close
                       /\ made.handle = ext[id].activity
                       /\ activities' =
                            [activities EXCEPT
                               ![made.handle].released = @ + 1]
                  [] last'.op = "on_event" ->
                       /\ made.fn = ClaimedCall.on_event
                       /\ made.level = ClaimedSeverity[last'.level]
                       /\ activities' = activities]_vars
  /\ [](Emitted =>
          last.native.text
            = Concat(RenderedSegments) \o ClaimedEventPart(last.attrs))

\* on_new_span came again, and returned, for a span whose activity is the
\* entered one: it made no native call.
C17_Witness ==
  /\ last.op = "on_new_span"
  /\ last.result = "ok"
  /\ last.native = NoNative
  /\ HasActivity(last.id)
  /\ current[MainThread] = ext[last.id].activity
  /\ Len(activities) = 1

\* The handle of the innermost span of a stack of entered spans, the
\* ambient activity for an empty stack.
InnermostOf(stack) ==
  IF stack = <<>> THEN OsActivityCurrent
  ELSE ext[stack[Len(stack)]].activity

\* C14: with on_enter and on_exit strictly nested on one thread, every
\* on_exit leaves the scope of the span entered last and not yet left, so
\* that the thread's current activity is then that of the enclosing entered
\* span, and after the last exit the ambient one that was current before
\* the first enter.
C14_NestedExitRestores ==
  [][\A t \in Threads :
       Len(entered'[t]) < Len(entered[t])
         => /\ state.scope = InnermostOf(entered[t])
            /\ current[t] = InnermostOf(entered[t])
            /\ current'[t] = InnermostOf(entered'[t])]_vars

\* C15: the scope-state buffer is not serialized between threads. Every
\* on_enter that reaches the native call overwrites it, whichever thread
\* wrote it last, and every on_exit restores from it what it holds,
\* whichever thread's scope that is.
C15_BufferLastWriterWins ==
  [][\A t \in Threads :
       /\ (pc[t] = "enter" /\ pc'[t] = "idle" /\ call'[t].result = "ok")
            => state' = [prev |-> current[t],
                         scope |-> ext[call[t].id].activity]
       /\ Len(entered'[t]) < Len(entered[t])
            => /\ current'[t] = state.prev
               /\ state' = state]_vars

\* Two threads are each inside one span, not the same, each in a properly
\* nested pair; the buffer holds the scope of the other thread, and not the
\* scope of the thread about to exit.
C15_Witness ==
  \E t, u \in Threads :
    /\ t # u
    /\ pc[t] = "idle"
    /\ pc[u] = "idle"
    /\ Len(entered[t]) = 1
    /\ Len(entered[u]) = 1
    /\ Top(t) # Top(u)
    /\ current[t] = ext[Top(t)].activity
    /\ current[u] = ext[Top(u)].activity
    /\ state.scope = current[u]
    /\ state.scope # current[t]

\* A thread that waits for a lock another thread holds.
WaitsForLock(t) ==
  \/ pc[t] = "lock" /\ namesLock # 0
  \/ /\ pc[t] = "parent"
     /\ spans[call[t].id].parent # 0
     /\ extLock[spans[call[t].id].parent] # 0
  \/ /\ pc[t] = "scope"
     /\ call[t].scope # <<>>
     /\ extLock[Head(call[t].scope)] # 0

\* C18: with the callbacks of several threads interleaved in lifecycle
\* order, every callback that has started comes to its end, returning or
\* failing; no state has every running callback waiting for a lock; and a
\* lock is only ever held by a thread inside a callback, so that every lock
\* a callback took is free again when it has ended.
C18_NoDeadlock ==
  /\ \A t \in Threads : (pc[t] # "idle") ~> (pc[t] = "idle")
  /\ []((\E t \in Threads : pc[t] # "idle")
          => \E t \in Threads : pc[t] # "idle" /\ ~WaitsForLock(t))
  /\ [](\A i \in SpanIds : extLock[i] # 0 => pc[extLock[i]] # "idle")
  /\ [](namesLock # 0 => pc[namesLock] # "idle")

\* on_new_span of a child span holds the NAMES lock and waits to read the
\* node of its parent, while another thread holds the parent's extensions
\* in on_enter.
C18_Witness ==
  \E t, u \in Threads :
    /\ t # u
    /\ pc[t] = "parent"
    /\ namesLock = t
    /\ spans[call[t].id].parent # 0
    /\ extLock[spans[call[t].id].parent] = u
    /\ pc[u] = "enter"

\* C19: in a lifecycle-ordered run a released activity handle is not used
\* again: it is not given as the parent of a new activity, not given to the
\* scope-enter call, no node read by on_event holds it, and it is not the
\* current scope of a thread once its span is closed.
C19_ReleasedNeverUsed ==
  /\ [][\A t \in Threads :
          /\ (pc[t] = "create" /\ pc'[t] = "attach")
               => \/ call[t].parent_activity = OsActivityCurrent
                  \/ activities[call[t].parent_activity].released = 0
          /\ (pc[t] = "enter" /\ pc'[t] = "idle" /\ call'[t].result = "ok")
               => activities[current'[t]].released = 0
          /\ (pc[t] = "scope" /\ call[t].scope # <<>>
                /\ call'[t].result = "ok")
               => activities[ext[Head(call[t].scope)].activity].released
                    = 0]_vars
  /\ [](\A h \in Handles :
          activities[h].released > 0
            => \A t \in Threads : current[t] # h)

====
